---------------------------- MODULE Spec2Model ----------------------------
(***************************************************************************)
(* A model of rust-mapcore: the angle and point types of lib.rs, the       *)
(* projections of projection.rs, equirectangular.rs and miller.rs, and     *)
(* the Map / ViewProjection / CombinedProjection of map.rs.                *)
(*                                                                         *)
(* f64 values are modelled as exact real numbers of the field Q(sqrt 3),   *)
(* extended with +inf, -inf and NaN: a value is a record [a, b, d] that    *)
(* stands for (a + b*sqrt(3)) / d, in lowest terms with d > 0; d = 0       *)
(* marks the special values (a = 1: +inf, a = -1: -inf, a = 0: NaN).       *)
(* The field holds the sines, cosines and half-angle tangents of every     *)
(* multiple of 30 degrees, so the trigonometry of the code is computed     *)
(* exactly on that grid.  Rounding and the sign of zero are not modelled.  *)
(* A value in radians is the record [pi180 |-> v], standing for            *)
(* v * pi / 180.                                                           *)
(***************************************************************************)
EXTENDS Integers, Sequences, FiniteSets, TLC

VARIABLES
    map,        \* the Map: [projection, view_projection, layers, x, y, width, height]
    calls,      \* the Layer::draw calls made by the last Map operation, in order
    last,       \* the last Map operation and its arguments
    hist,       \* the layers handed to add_layer since the last clear_layers
    rect,       \* a LatLonRect: [north, south, east, west]
    rect_last,  \* the last LatLonRect operation
    geo         \* the last call of a projection or of antipode: inputs and outputs

map_vars == <<map, calls, last, hist>>
rect_vars == <<rect, rect_last>>
vars == <<map, calls, last, hist, rect, rect_last, geo>>

----------------------------------------------------------------------------
(* f64 arithmetic *)

AbsInt(i) == IF i < 0 THEN -i ELSE i

RECURSIVE GCD(_, _)
GCD(m, n) == IF n = 0 THEN m ELSE GCD(n, m % n)

\* (a + b*sqrt(3)) / d in lowest terms, for d # 0
Q(a, b, d) ==
    LET g == GCD(GCD(AbsInt(a), AbsInt(b)), AbsInt(d))
        s == IF d < 0 THEN -1 ELSE 1
    IN [a |-> (s * a) \div g, b |-> (s * b) \div g, d |-> (s * d) \div g]

\* an integer as f64 (`as f64`, or a literal such as 180.0)
F(n) == [a |-> n, b |-> 0, d |-> 1]

NaN == [a |-> 0, b |-> 0, d |-> 0]
PosInf == [a |-> 1, b |-> 0, d |-> 0]
NegInf == [a |-> -1, b |-> 0, d |-> 0]

IsNaN(v) == v = NaN
IsInf(v) == v.d = 0 /\ v.a # 0
IsFinite(v) == v.d # 0

\* the sign of a value: -1, 0 or 1 (0 for NaN)
Sgn(v) ==
    IF v.d = 0 THEN v.a
    ELSE IF v.a >= 0 /\ v.b >= 0 THEN (IF v.a = 0 /\ v.b = 0 THEN 0 ELSE 1)
    ELSE IF v.a <= 0 /\ v.b <= 0 THEN -1
    ELSE IF v.a > 0 THEN (IF v.a * v.a > 3 * v.b * v.b THEN 1 ELSE -1)
    ELSE (IF 3 * v.b * v.b > v.a * v.a THEN 1 ELSE -1)

Neg(v) == [a |-> -v.a, b |-> -v.b, d |-> v.d]

FAbs(v) == IF Sgn(v) < 0 THEN Neg(v) ELSE v

FAdd(v, w) ==
    IF IsNaN(v) \/ IsNaN(w) THEN NaN
    ELSE IF IsInf(v) /\ IsInf(w) THEN (IF v = w THEN v ELSE NaN)
    ELSE IF IsInf(v) THEN v
    ELSE IF IsInf(w) THEN w
    ELSE Q(v.a * w.d + w.a * v.d, v.b * w.d + w.b * v.d, v.d * w.d)

FSub(v, w) == FAdd(v, Neg(w))

FMul(v, w) ==
    IF IsNaN(v) \/ IsNaN(w) THEN NaN
    ELSE IF IsInf(v) \/ IsInf(w)
         THEN (IF Sgn(v) * Sgn(w) = 0 THEN NaN
               ELSE IF Sgn(v) * Sgn(w) > 0 THEN PosInf ELSE NegInf)
    ELSE Q(v.a * w.a + 3 * v.b * w.b, v.a * w.b + v.b * w.a, v.d * w.d)

FDiv(v, w) ==
    IF IsNaN(v) \/ IsNaN(w) THEN NaN
    ELSE IF IsInf(w) THEN (IF IsInf(v) THEN NaN ELSE F(0))
    ELSE IF Sgn(w) = 0
         THEN (IF Sgn(v) = 0 THEN NaN ELSE IF Sgn(v) > 0 THEN PosInf ELSE NegInf)
    ELSE \* 1/(a + b r) = (a - b r)/(a^2 - 3 b^2)
         FMul(v, Q(w.a * w.d, -(w.b * w.d), w.a * w.a - 3 * w.b * w.b))

FLt(v, w) == ~IsNaN(v) /\ ~IsNaN(w) /\ v # w /\ Sgn(FSub(v, w)) < 0
FGe(v, w) == ~IsNaN(v) /\ ~IsNaN(w) /\ (v = w \/ Sgn(FSub(v, w)) > 0)

\* i32 division truncates toward zero
IDiv(m, n) == IF m >= 0 THEN m \div n ELSE -((-m) \div n)

----------------------------------------------------------------------------
(* trigonometry on the 30 degree grid *)

to_radians(v) == [pi180 |-> v]
to_degrees(r) == r.pi180

\* sin and cos of k*30 degrees, k in 0..11
SinTable == <<F(0), Q(1, 0, 2), Q(0, 1, 2), F(1), Q(0, 1, 2), Q(1, 0, 2),
              F(0), Q(-1, 0, 2), Q(0, -1, 2), F(-1), Q(0, -1, 2), Q(-1, 0, 2)>>

OnGrid(v) == IsFinite(v) /\ v.b = 0 /\ v.d = 1 /\ v.a % 30 = 0

\* off the grid the table has no entry (index 0): the model does not cover it
Sin(r) ==
    IF ~IsFinite(r.pi180) THEN NaN
    ELSE SinTable[IF OnGrid(r.pi180) THEN ((r.pi180.a % 360) \div 30) + 1 ELSE 0]

Cos(r) ==
    IF ~IsFinite(r.pi180) THEN NaN
    ELSE SinTable[IF OnGrid(r.pi180) THEN (((r.pi180.a + 90) % 360) \div 30) + 1 ELSE 0]

\* tan(k*15 degrees) for -6 < k < 6, by the half-angle formula
TanHalf(k) == FDiv(Sin(to_radians(F(30 * k))), FAdd(F(1), Cos(to_radians(F(30 * k)))))

Atan(v) ==
    IF IsNaN(v) THEN to_radians(NaN)
    ELSE IF v = PosInf THEN to_radians(F(90))
    ELSE IF v = NegInf THEN to_radians(F(-90))
    ELSE to_radians(F(15 * (CHOOSE k \in -5..5 : TanHalf(k) = v)))

Atan2(v, w) ==
    IF IsNaN(v) \/ IsNaN(w) THEN to_radians(NaN)
    ELSE IF Sgn(v) = 0 /\ Sgn(w) = 0 THEN to_radians(F(0))
    ELSE IF IsInf(v) /\ IsInf(w)
         THEN to_radians(F(Sgn(v) * (IF Sgn(w) > 0 THEN 45 ELSE 135)))
    ELSE IF IsInf(v) THEN to_radians(F(Sgn(v) * 90))
    ELSE IF IsInf(w)
         THEN to_radians(F(IF Sgn(w) > 0 THEN 0 ELSE IF Sgn(v) < 0 THEN -180 ELSE 180))
    ELSE to_radians(F(30 * (CHOOSE k \in -5..6 :
            LET t == to_radians(F(30 * k))
            IN /\ FMul(w, Sin(t)) = FMul(v, Cos(t))
               /\ Sgn(FAdd(FMul(w, Cos(t)), FMul(v, Sin(t)))) > 0)))

\* the non-negative square roots the projections need
Roots == {Q(a, b, d) : a \in -3..3, b \in -2..2, d \in 1..3}

Sqrt(v) ==
    IF IsNaN(v) \/ Sgn(v) < 0 THEN NaN
    ELSE IF IsInf(v) THEN PosInf
    ELSE CHOOSE s \in Roots : Sgn(s) >= 0 /\ FMul(s, s) = v

Hypot(v, w) ==
    IF IsInf(v) \/ IsInf(w) THEN PosInf
    ELSE Sqrt(FAdd(FMul(v, v), FMul(w, w)))

\* a product with a value in radians, e.g. 2.0 * atan(..)
RadMul(c, r) == to_radians(FMul(c, r.pi180))

----------------------------------------------------------------------------
(* lib.rs: Latitude, Longitude, LatLon, Point *)

LatLon(lat, lon) == [latitude |-> lat, longitude |-> lon]
Point(px, py) == [x |-> px, y |-> py]

origin == Point(F(0), F(0))

Point_add(p, q) == Point(FAdd(p.x, q.x), FAdd(p.y, q.y))
Point_sub(p, q) == Point(FSub(p.x, q.x), FSub(p.y, q.y))
Point_mul(p, c) == Point(FMul(p.x, c), FMul(p.y, c))

\* faulty variant: the quotient taken without the absolute value of the cosine
normalize_latitude_no_abs(latitude) ==
    LET radians == to_radians(latitude)
        result == Atan(FDiv(Sin(radians), Cos(radians)))
    IN to_degrees(result)

normalize_latitude(latitude) ==
    LET radians == to_radians(latitude)
        result == Atan(FDiv(Sin(radians), FAbs(Cos(radians))))
    IN to_degrees(result)

normalize_longitude(longitude) ==
    LET radians == to_radians(longitude)
        result == Atan2(Sin(radians), Cos(radians))
    IN to_degrees(result)

antipode(self) ==
    LatLon(normalize_latitude(FAdd(self.latitude, F(180))),
           normalize_longitude(FAdd(self.longitude, F(180))))

----------------------------------------------------------------------------
(* equirectangular.rs *)

Equirectangular_project(position) ==
    LET px == position.longitude
        py == position.latitude
    IN Point(px, py)

\* faulty variant: the plane coordinates taken in the order project wrote them
Equirectangular_unproject_swapped(position) ==
    LatLon(position.x, position.y)

Equirectangular_unproject(position) ==
    LatLon(position.y, position.x)

----------------------------------------------------------------------------
(* projection.rs: StereographicProjection *)

Stereographic_project(projection_point, position) ==
    LET zenith_radians == to_radians(FSub(position.latitude, projection_point.latitude))
        azimuth_radians == to_radians(FSub(position.longitude, projection_point.longitude))
        r == FDiv(Sin(zenith_radians), FSub(F(1), Cos(zenith_radians)))
        theta == azimuth_radians
        px == FMul(r, Cos(theta))
        py == FMul(r, Sin(theta))
    IN Point(px, py)

Stereographic_unproject(projection_point, position) ==
    LET r == Hypot(position.x, position.y)
        theta == Atan2(position.y, position.x)
        zenith_radians == RadMul(F(2), Atan(FDiv(F(1), r)))
        azimuth_radians == theta
        latitude == normalize_latitude(
                        FAdd(to_degrees(zenith_radians), projection_point.latitude))
        longitude == normalize_longitude(
                        FAdd(to_degrees(azimuth_radians), projection_point.longitude))
    IN LatLon(latitude, longitude)
----------------------------------------------------------------------------
(* miller.rs.  tan, asinh, sinh and atan are applied to raw f64 values      *)
(* (the code passes degrees where radians are expected); off zero their     *)
(* values are not in the field, so an application is kept as the term       *)
(* [fn, arg], and a product with a term as the term ["mul", <<c, t>>].      *)

IsTerm(v) == "fn" \in DOMAIN v

Apply(f, v) ==
    IF IsTerm(v) THEN [fn |-> f, arg |-> v]
    ELSE IF IsNaN(v) THEN NaN
    ELSE IF v = F(0) THEN F(0)
    ELSE [fn |-> f, arg |-> v]

Scale(c, v) == IF IsTerm(v) THEN [fn |-> "mul", arg |-> <<c, v>>] ELSE FMul(c, v)

Miller_project(position) ==
    LET px == position.longitude
        latitude == position.latitude
        py == Scale(FDiv(F(5), F(4)),
                    Apply("asinh", Apply("tan", Scale(FDiv(F(4), F(5)), latitude))))
    IN Point(px, py)

\* faulty variant: the inverse of project (longitude from x, latitude from the formula)
Miller_unproject_inverse(position) ==
    LET latitude == Scale(FDiv(F(5), F(4)),
                          Apply("atan", Apply("sinh", Scale(FDiv(F(4), F(5)), position.y))))
    IN LatLon(latitude, position.x)

Miller_unproject(position) ==
    LET longitude == Scale(FDiv(F(5), F(4)),
                           Apply("atan", Apply("sinh", Scale(FDiv(F(4), F(5)), position.y))))
    IN LatLon(position.y, longitude)

----------------------------------------------------------------------------
(* lib.rs: LatLonRect *)

from_bounds(north, south, east, west) ==
    [north |-> north, south |-> south, east |-> east, west |-> west]

from_corners(northwest, southeast) ==
    [north |-> northwest.latitude, south |-> southeast.latitude,
     east |-> southeast.longitude, west |-> northwest.longitude]

set_north(self, north) == [self EXCEPT !.north = north]
set_south(self, south) == [self EXCEPT !.south = south]
set_east(self, east) == [self EXCEPT !.east = east]
set_west(self, west) == [self EXCEPT !.west = west]

----------------------------------------------------------------------------
(* map.rs: ViewProjection, CombinedProjection, Map *)

ViewProjection_project(self, mp, viewport_width, viewport_height) ==
    LET v1 == Point_sub(mp, self.center)
        v2 == Point_mul(v1, self.zoom)
        v3 == Point_add(v2, Point(F(IDiv(viewport_width, 2)), F(IDiv(viewport_height, 2))))
    IN v3

\* faulty variant: the half viewport computed in f64, not truncated
ViewProjection_unproject_float_half(self, screen, viewport_width, viewport_height) ==
    LET v1 == Point_sub(screen, Point(FDiv(F(viewport_width), F(2)),
                                      FDiv(F(viewport_height), F(2))))
        v2 == Point_mul(v1, FDiv(F(1), self.zoom))
        v3 == Point_add(v2, self.center)
    IN v3

ViewProjection_unproject(self, screen, viewport_width, viewport_height) ==
    LET v1 == Point_sub(screen, Point(F(IDiv(viewport_width, 2)), F(IDiv(viewport_height, 2))))
        v2 == Point_mul(v1, FDiv(F(1), self.zoom))
        v3 == Point_add(v2, self.center)
    IN v3

CombinedProjection_new(proj, view, viewport_width, viewport_height) ==
    [projection |-> proj, view_projection |-> view,
     viewport_width |-> viewport_width, viewport_height |-> viewport_height]

\* a call through the Projection trait object: the implementation in the box
Projection_project(proj, position) ==
    CASE proj.kind = "Equirectangular" -> Equirectangular_project(position)
      [] proj.kind = "Miller" -> Miller_project(position)
      [] proj.kind = "Stereographic" ->
             Stereographic_project(proj.projection_point, position)

Projection_unproject(proj, position) ==
    CASE proj.kind = "Equirectangular" -> Equirectangular_unproject(position)
      [] proj.kind = "Miller" -> Miller_unproject(position)
      [] proj.kind = "Stereographic" ->
             Stereographic_unproject(proj.projection_point, position)

\* faulty variant: the viewport height and width handed over in the wrong order
CombinedProjection_project_swapped(self, position) ==
    LET mp == Projection_project(self.projection, position)
    IN ViewProjection_project(self.view_projection, mp,
                              self.viewport_height, self.viewport_width)

CombinedProjection_project(self, position) ==
    LET mp == Projection_project(self.projection, position)
    IN ViewProjection_project(self.view_projection, mp,
                              self.viewport_width, self.viewport_height)

CombinedProjection_unproject(self, position) ==
    LET mp == ViewProjection_unproject(self.view_projection, position,
                                       self.viewport_width, self.viewport_height)
    IN Projection_unproject(self.projection, mp)

Map_new(proj, px, py, w, h) ==
    [projection |-> proj,
     view_projection |-> [center |-> origin, zoom |-> F(1)],
     layers |-> <<>>,
     x |-> px, y |-> py, width |-> w, height |-> h]

\* faulty variant: a new projection also drops the layers drawn with the old one
Map_set_projection_drop_layers(self, proj) ==
    [self EXCEPT !.projection = proj, !.layers = <<>>]

Map_set_projection(self, proj) == [self EXCEPT !.projection = proj]

Map_add_layer(self, layer) == [self EXCEPT !.layers = Append(self.layers, layer)]

Map_clear_layers(self) == [self EXCEPT !.layers = <<>>]

Map_zoom(self) == self.view_projection.zoom

Map_set_zoom(self, zoom) == [self EXCEPT !.view_projection.zoom = zoom]

Map_set_geometry(self, px, py, w, h) ==
    [self EXCEPT !.x = px, !.y = py, !.width = w, !.height = h]

Map_scroll(self, dx, dy) ==
    LET map_delta == ViewProjection_unproject(self.view_projection,
                         Point(F(dx), F(dy)), self.width, self.height)
    IN [self EXCEPT !.view_projection.center =
                        Point_add(self.view_projection.center, map_delta)]

\* faulty variant: the layers drawn top first
Map_draw_reversed(self) ==
    LET combined == CombinedProjection_new(self.projection, self.view_projection,
                                           self.width, self.height)
        n == Len(self.layers)
    IN [i \in 1..n |->
           [layer |-> self.layers[n + 1 - i], projection |-> combined,
            x |-> self.x, y |-> self.y, width |-> self.width, height |-> self.height]]

\* the Layer::draw calls of Map::draw, in the order they are made
Map_draw(self) ==
    LET combined == CombinedProjection_new(self.projection, self.view_projection,
                                           self.width, self.height)
    IN [i \in 1..Len(self.layers) |->
           [layer |-> self.layers[i], projection |-> combined,
            x |-> self.x, y |-> self.y, width |-> self.width, height |-> self.height]]
----------------------------------------------------------------------------
(* The Map as a state machine: one action per public method of Map *)

MaxLayers == 2
MaxCenter == 1

Projections ==
    {[kind |-> "Equirectangular"],
     [kind |-> "Miller"],
     [kind |-> "Stereographic", projection_point |-> LatLon(F(30), F(60))]}

LayerObjects == {"roads", "labels", "grid"}

\* <<x, y, width, height>>: odd and negative sizes exercise the i32 division
Geometries == {<<0, 0, 5, 4>>, <<10, 20, -3, 7>>}

Zooms == {F(2), Q(1, 0, 2), F(0)}

ScrollDeltas == {<<0, 0>>, <<3, -2>>}

Small(v) == ~IsFinite(v) \/ FGe(F(MaxCenter), FAbs(v))

IdleMap == Map_new([kind |-> "Equirectangular"], 0, 0, 0, 0)
IdleRect == from_bounds(F(0), F(0), F(0), F(0))

MapInit ==
    /\ map \in {Map_new(P, g[1], g[2], g[3], g[4]) : P \in Projections, g \in Geometries}
    /\ calls = <<>>
    /\ last = [op |-> "new"]
    /\ hist = <<>>

SetProjection(P) ==
    /\ map' = Map_set_projection(map, P)
    /\ calls' = <<>>
    /\ last' = [op |-> "set_projection", projection |-> P]
    /\ UNCHANGED hist

AddLayer(L) ==
    /\ Len(map.layers) < MaxLayers
    /\ L \notin {map.layers[i] : i \in 1..Len(map.layers)}
    /\ map' = Map_add_layer(map, L)
    /\ calls' = <<>>
    /\ last' = [op |-> "add_layer", layer |-> L]
    /\ hist' = Append(hist, L)

ClearLayers ==
    /\ map' = Map_clear_layers(map)
    /\ calls' = <<>>
    /\ last' = [op |-> "clear_layers"]
    /\ hist' = <<>>

SetZoom(z) ==
    /\ map' = Map_set_zoom(map, z)
    /\ calls' = <<>>
    /\ last' = [op |-> "set_zoom", zoom |-> z]
    /\ UNCHANGED hist

SetGeometry(g) ==
    /\ map' = Map_set_geometry(map, g[1], g[2], g[3], g[4])
    /\ calls' = <<>>
    /\ last' = [op |-> "set_geometry", geometry |-> g]
    /\ UNCHANGED hist

Scroll(dx, dy) ==
    /\ Small(map.view_projection.center.x)
    /\ Small(map.view_projection.center.y)
    /\ map' = Map_scroll(map, dx, dy)
    /\ calls' = <<>>
    /\ last' = [op |-> "scroll", dx |-> dx, dy |-> dy]
    /\ UNCHANGED hist

Draw ==
    /\ calls' = Map_draw(map)
    /\ last' = [op |-> "draw"]
    /\ UNCHANGED <<map, hist>>

MapNext ==
    \/ \E P \in Projections : SetProjection(P)
    \/ \E L \in LayerObjects : AddLayer(L)
    \/ ClearLayers
    \/ \E z \in Zooms : SetZoom(z)
    \/ \E g \in Geometries : SetGeometry(g)
    \/ \E d \in ScrollDeltas : Scroll(d[1], d[2])
    \/ Draw

Init ==
    /\ MapInit
    /\ rect = IdleRect
    /\ rect_last = [op |-> "none"]
    /\ geo = [op |-> "none"]

Next == MapNext /\ UNCHANGED <<rect, rect_last, geo>>

Spec == Init /\ [][Next]_vars
----------------------------------------------------------------------------
(* LatLonRect as a state machine: the constructors and the four setters *)

RectLats == {F(-60), F(0), F(30), F(90)}
RectLons == {F(-120), F(0), F(45), F(180)}
RectCorners == {LatLon(F(30), F(-120)), LatLon(F(-60), F(45)), LatLon(F(0), F(0))}

FromBounds(n, s, e, w) ==
    /\ rect' = from_bounds(n, s, e, w)
    /\ rect_last' = [op |-> "from_bounds"]

FromCorners(nw, se) ==
    /\ rect' = from_corners(nw, se)
    /\ rect_last' = [op |-> "from_corners"]

SetNorth(n) ==
    /\ rect' = set_north(rect, n)
    /\ rect_last' = [op |-> "set_north"]

SetSouth(s) ==
    /\ rect' = set_south(rect, s)
    /\ rect_last' = [op |-> "set_south"]

SetEast(e) ==
    /\ rect' = set_east(rect, e)
    /\ rect_last' = [op |-> "set_east"]

SetWest(w) ==
    /\ rect' = set_west(rect, w)
    /\ rect_last' = [op |-> "set_west"]

RectNext ==
    \/ \E n \in RectLats, s \in RectLats, e \in RectLons, w \in RectLons :
           FromBounds(n, s, e, w)
    \/ \E nw \in RectCorners, se \in RectCorners : FromCorners(nw, se)
    \/ \E n \in RectLats : SetNorth(n)
    \/ \E s \in RectLats : SetSouth(s)
    \/ \E e \in RectLons : SetEast(e)
    \/ \E w \in RectLons : SetWest(w)

InitRect ==
    /\ rect = IdleRect
    /\ rect_last = [op |-> "none"]
    /\ map = IdleMap
    /\ calls = <<>>
    /\ last = [op |-> "new"]
    /\ hist = <<>>
    /\ geo = [op |-> "none"]

NextRect == RectNext /\ UNCHANGED <<map, calls, last, hist, geo>>

SpecRect == InitRect /\ [][NextRect]_vars

----------------------------------------------------------------------------
(* The projections and antipode, applied to inputs drawn from bounded sets. *)
(* StereographicIdentity and StereographicAntipode are the bodies of the    *)
(* tests of projection.rs with the test's constants as parameters.  geo     *)
(* holds one call at a time.                                                *)

\* normalized positions on the 30 degree grid
GridLats == {F(30 * k) : k \in -3..3}
GridLons == {F(30 * k) : k \in -5..6}
GridPositions == {LatLon(lat, lon) : lat \in GridLats, lon \in GridLons}

\* projection points: the poles, the equator, both hemispheres
GridCenters ==
    {LatLon(lat, lon) : lat \in {F(-90), F(-30), F(0), F(60), F(90)},
                        lon \in {F(-120), F(0), F(180)}}

\* raw f64 values: out of range, fractional, negative
RawValues == {F(0), F(30), F(-200), F(400), Q(1, 0, 2), Q(-7, 0, 3)}
RawPositions == {LatLon(lat, lon) : lat \in RawValues, lon \in RawValues}
RawPoints == {Point(px, py) : px \in RawValues, py \in RawValues}

Antipode(p) ==
    /\ geo.op = "none"
    /\ geo' = [op |-> "antipode", self |-> p, out |-> antipode(p)]

StereographicIdentity(center, ll) ==
    LET projected == Stereographic_project(center, ll)
        unprojected == Stereographic_unproject(center, projected)
    IN /\ geo.op = "none"
       /\ geo' = [op |-> "stereographic_identity", center |-> center, ll |-> ll,
                  projected |-> projected, unprojected |-> unprojected]

StereographicAntipode(center) ==
    LET anti == antipode(center)
        projected == Stereographic_project(center, anti)
    IN /\ geo.op = "none"
       /\ geo' = [op |-> "stereographic_antipode", center |-> center,
                  antipode |-> anti, projected |-> projected]

EquirectangularProject(ll) ==
    /\ geo.op = "none"
    /\ geo' = [op |-> "equirectangular_project", position |-> ll,
               out |-> Equirectangular_project(ll)]

EquirectangularUnproject(pt) ==
    /\ geo.op = "none"
    /\ geo' = [op |-> "equirectangular_unproject", position |-> pt,
               out |-> Equirectangular_unproject(pt)]

MillerProject(ll) ==
    /\ geo.op = "none"
    /\ geo' = [op |-> "miller_project", position |-> ll, out |-> Miller_project(ll)]

MillerUnproject(pt) ==
    /\ geo.op = "none"
    /\ geo' = [op |-> "miller_unproject", position |-> pt, out |-> Miller_unproject(pt)]

\* the caller drops the result; the next call starts afresh
Return ==
    /\ geo.op # "none"
    /\ geo' = [op |-> "none"]

GeoNext ==
    \/ \E p \in GridPositions : Antipode(p)
    \/ \E c \in GridCenters, ll \in GridPositions : StereographicIdentity(c, ll)
    \/ \E c \in GridPositions : StereographicAntipode(c)
    \/ \E ll \in RawPositions : EquirectangularProject(ll)
    \/ \E pt \in RawPoints : EquirectangularUnproject(pt)
    \/ \E ll \in RawPositions : MillerProject(ll)
    \/ \E pt \in RawPoints : MillerUnproject(pt)
    \/ Return

InitGeo ==
    /\ geo = [op |-> "none"]
    /\ map = IdleMap
    /\ calls = <<>>
    /\ last = [op |-> "new"]
    /\ hist = <<>>
    /\ rect = IdleRect
    /\ rect_last = [op |-> "none"]

NextGeo == GeoNext /\ UNCHANGED <<map, calls, last, hist, rect, rect_last>>

SpecGeo == InitGeo /\ [][NextGeo]_vars
----------------------------------------------------------------------------
(* Properties of Map (checked under Spec) *)

PositiveZoom(view) == IsFinite(view.zoom) /\ Sgn(view.zoom) > 0
FiniteCenter(view) == IsFinite(view.center.x) /\ IsFinite(view.center.y)

\* C1: with positive zoom, scroll(dx, dy) moves the view center by exactly
\* (dx/zoom, dy/zoom), whatever the center and the viewport size are; in
\* particular scroll(0, 0) leaves the center, and so every projected output,
\* unchanged.
C1_ScrollMovesCenterByDelta ==
    [][(/\ last'.op = "scroll"
        /\ PositiveZoom(map.view_projection)
        /\ FiniteCenter(map.view_projection))
       => map'.view_projection.center =
              Point_add(map.view_projection.center,
                        Point(FDiv(F(last'.dx), map.view_projection.zoom),
                              FDiv(F(last'.dy), map.view_projection.zoom)))]_vars

ProbePoints == {Point(F(0), F(0)), Point(F(3), F(-2)), Point(Q(1, 0, 2), F(7))}

ViewRoundTrip(view, w, h, p) ==
    /\ ViewProjection_unproject(view, ViewProjection_project(view, p, w, h), w, h) = p
    /\ ViewProjection_project(view, ViewProjection_unproject(view, p, w, h), w, h) = p

\* C2: for any (finite) center, any positive zoom and any viewport size,
\* ViewProjection.unproject(project(p)) = p for every map point p and
\* project(unproject(s)) = s for every screen point s.
C2_ViewProjectionRoundTrip ==
    (PositiveZoom(map.view_projection) /\ FiniteCenter(map.view_projection))
    => \A p \in ProbePoints :
           ViewRoundTrip(map.view_projection, map.width, map.height, p)

\* a view that is zoomed, scrolled away from the origin and of odd, negative width
C2_Witness ==
    /\ map.view_projection.zoom = Q(1, 0, 2)
    /\ FiniteCenter(map.view_projection)
    /\ map.view_projection.center # origin
    /\ map.width = -3
    /\ ViewProjection_project(map.view_projection, Point(F(3), F(-2)),
                              map.width, map.height) # Point(F(3), F(-2))
    /\ ViewRoundTrip(map.view_projection, map.width, map.height, Point(F(3), F(-2)))

\* C3: draw() calls draw exactly once on each layer added since the last
\* clear_layers, and on no other, in the order the layers were added, and
\* passes every layer the map's current x, y, width and height.
C3_DrawCallsLayersInOrder ==
    last.op = "draw"
    => /\ Len(calls) = Len(hist)
       /\ \A i \in 1..Len(calls) :
              /\ calls[i].layer = hist[i]
              /\ calls[i].x = map.x
              /\ calls[i].y = map.y
              /\ calls[i].width = map.width
              /\ calls[i].height = map.height

\* a draw of two layers added in an order that is not alphabetical, after
\* the zoom was changed
C3_Witness ==
    /\ last.op = "draw"
    /\ Len(calls) = 2
    /\ calls[1].layer = "roads"
    /\ calls[2].layer = "grid"
    /\ calls[1].width = map.width
    /\ map.view_projection.zoom = F(2)

SameView(m, n) == m.view_projection = n.view_projection
SameGeometry(m, n) ==
    m.x = n.x /\ m.y = n.y /\ m.width = n.width /\ m.height = n.height

\* C9: set_projection leaves the layer list, the view center, the zoom and
\* the geometry unchanged; add_layer and clear_layers leave the projection,
\* the view center, the zoom and the geometry unchanged; set_zoom changes
\* only the zoom and set_geometry changes only x, y, width and height.
C9_OperationsAreIndependent ==
    [][/\ last'.op = "set_projection"
          => /\ map'.layers = map.layers
             /\ SameView(map', map)
             /\ SameGeometry(map', map)
       /\ last'.op \in {"add_layer", "clear_layers"}
          => /\ map'.projection = map.projection
             /\ SameView(map', map)
             /\ SameGeometry(map', map)
       /\ last'.op = "set_zoom"
          => /\ map'.projection = map.projection
             /\ map'.layers = map.layers
             /\ map'.view_projection.center = map.view_projection.center
             /\ SameGeometry(map', map)
       /\ last'.op = "set_geometry"
          => /\ map'.projection = map.projection
             /\ map'.layers = map.layers
             /\ SameView(map', map)]_vars

\* the projection was just replaced on a map that has layers, a zoom and a
\* scrolled view
C9_Witness ==
    /\ last.op = "set_projection"
    /\ map.projection = last.projection
    /\ map.projection.kind = "Stereographic"
    /\ Len(map.layers) = 2
    /\ map.view_projection.zoom = F(2)
    /\ map.view_projection.center # origin

\* positions each implementation is applied to: raw values for Equirectangular,
\* the equator for Miller (where its y is in the field), the grid for
\* Stereographic (one of them at the projection point's latitude)
CombinedPositions(proj) ==
    CASE proj.kind = "Equirectangular" ->
             {LatLon(F(-200), Q(1, 0, 2)), LatLon(F(30), F(60)), LatLon(F(0), F(0))}
      [] proj.kind = "Miller" -> {LatLon(F(0), F(400)), LatLon(F(0), Q(1, 0, 2))}
      [] proj.kind = "Stereographic" ->
             {LatLon(F(60), F(-120)), LatLon(F(0), F(60)), LatLon(F(30), F(0))}

\* screen points: any for Equirectangular and Miller; for Stereographic the
\* pixels of grid positions in a view that maps them back into the field
CombinedScreenPoints(m) ==
    IF m.projection.kind # "Stereographic" THEN ProbePoints
    ELSE IF PositiveZoom(m.view_projection) /\ FiniteCenter(m.view_projection)
    THEN {ViewProjection_project(m.view_projection,
              Stereographic_project(m.projection.projection_point, ll),
              m.width, m.height) : ll \in {LatLon(F(60), F(-120)), LatLon(F(0), F(60))}}
    ELSE {}

\* C11: every layer is handed the same CombinedProjection, and it chains the
\* map's current projection with the map's current view, width and height:
\* project(ll) = ViewProjection.project(inner.project(ll), width, height) and
\* unproject(s) = inner.unproject(ViewProjection.unproject(s, width, height));
\* with an Equirectangular inner projection and positive zoom,
\* unproject(project(ll)) = ll.
C11_CombinedProjectionChains ==
    (last.op = "draw" /\ Len(calls) > 0)
    => LET combined == calls[1].projection
       IN /\ \A i \in 1..Len(calls) : calls[i].projection = combined
          /\ \A ll \in CombinedPositions(map.projection) :
                 CombinedProjection_project(combined, ll) =
                     ViewProjection_project(map.view_projection,
                         Projection_project(map.projection, ll), map.width, map.height)
          /\ \A s \in CombinedScreenPoints(map) :
                 CombinedProjection_unproject(combined, s) =
                     Projection_unproject(map.projection,
                         ViewProjection_unproject(map.view_projection, s,
                                                  map.width, map.height))
          /\ (/\ map.projection.kind = "Equirectangular"
              /\ PositiveZoom(map.view_projection)
              /\ FiniteCenter(map.view_projection))
             => \A ll \in CombinedPositions(map.projection) :
                    CombinedProjection_unproject(combined,
                        CombinedProjection_project(combined, ll)) = ll

\* a draw through an Equirectangular projection in a zoomed, scrolled view of
\* unequal half width and half height, where a position's pixel differs from
\* its map point and is mapped back to the position
C11_Witness ==
    /\ last.op = "draw"
    /\ Len(calls) = 2
    /\ map.projection.kind = "Equirectangular"
    /\ map.view_projection.zoom = Q(1, 0, 2)
    /\ FiniteCenter(map.view_projection)
    /\ map.view_projection.center # origin
    /\ map.width = -3
    /\ LET combined == calls[2].projection
           ll == LatLon(F(-200), Q(1, 0, 2))
       IN /\ CombinedProjection_project(combined, ll) # Equirectangular_project(ll)
          /\ CombinedProjection_unproject(combined,
                 CombinedProjection_project(combined, ll)) = ll

----------------------------------------------------------------------------
(* Properties of LatLonRect (checked under SpecRect) *)

\* C7: every LatLonRect made by from_bounds or from_corners and changed by
\* set_north, set_south, set_east and set_west has north >= south and
\* east >= west.
C7_RectIsOrdered ==
    rect_last.op # "none"
    => FGe(rect.north, rect.south) /\ FGe(rect.east, rect.west)

----------------------------------------------------------------------------
(* Properties of the projections and of antipode (checked under SpecGeo) *)

\* C4: for every projection point c and every normalized position p whose
\* latitude differs from c's, unproject(project(p)) = p, for latitudes above
\* the projection point's and for latitudes below it.
C4_StereographicRoundTrip ==
    (geo.op = "stereographic_identity" /\ geo.ll.latitude # geo.center.latitude)
    => geo.unprojected = geo.ll

\* C5: project(c.antipode()) is the plane point (0, 0) for every projection
\* point c.
C5_AntipodeProjectsToOrigin ==
    geo.op = "stereographic_antipode" => geo.projected = origin

\* C6: Equirectangular project and unproject are exact mutual inverses on
\* raw values, and project(ll) = (ll.longitude, ll.latitude).
C6_EquirectangularInverse ==
    /\ geo.op = "equirectangular_project"
       => /\ geo.out = Point(geo.position.longitude, geo.position.latitude)
          /\ Equirectangular_unproject(geo.out) = geo.position
    /\ geo.op = "equirectangular_unproject"
       => Equirectangular_project(geo.out) = geo.position

\* a raw position out of the normalized range, with latitude # longitude
C6_Witness ==
    /\ geo.op = "equirectangular_project"
    /\ geo.position = LatLon(F(-200), Q(1, 0, 2))
    /\ geo.out = Point(Q(1, 0, 2), F(-200))

\* v + 180 brought into (-180, 180], for v in (-180, 180]
Plus180(v) ==
    IF FGe(F(180), FAdd(v, F(180))) THEN FAdd(v, F(180)) ELSE FSub(v, F(180))

\* C8: for latitude in [-90, 90] and longitude in (-180, 180], antipode has
\* latitude -p.latitude and longitude p.longitude + 180 normalized into
\* (-180, 180]; the result lies within [-90, 90] and [-180, 180].
C8_Antipode ==
    geo.op = "antipode"
    => /\ geo.out.latitude = Neg(geo.self.latitude)
       /\ geo.out.longitude = Plus180(geo.self.longitude)
       /\ FGe(geo.out.latitude, F(-90)) /\ FGe(F(90), geo.out.latitude)
       /\ FGe(geo.out.longitude, F(-180)) /\ FGe(F(180), geo.out.longitude)

\* the antipode of {60, 90} is {-60, -90}
C8_Witness ==
    /\ geo.op = "antipode"
    /\ geo.self = LatLon(F(60), F(90))
    /\ geo.out = LatLon(F(-60), F(-90))

\* C10: Miller unproject returns p.y verbatim as latitude and
\* (5/4)*atan(sinh((4/5)*p.y)) as longitude, whatever p.x is; project keeps
\* the longitude verbatim as x.
C10_MillerUnproject ==
    /\ geo.op = "miller_unproject"
       => /\ geo.out.latitude = geo.position.y
          /\ geo.out.longitude =
                 Scale(Q(5, 0, 4),
                       Apply("atan", Apply("sinh", Scale(Q(4, 0, 5), geo.position.y))))
          /\ \A q \in RawPoints :
                 q.y = geo.position.y => Miller_unproject(q) = geo.out
    /\ geo.op = "miller_project" => geo.out.x = geo.position.longitude

\* a point whose x differs from its y and from the longitude it unprojects to
C10_Witness ==
    /\ geo.op = "miller_unproject"
    /\ geo.position = Point(F(400), F(30))
    /\ geo.out.latitude = F(30)
    /\ geo.out.longitude # F(400)
    /\ Miller_unproject(Point(F(-200), F(30))) = geo.out

============================================================================
